---- MODULE Spec2Model ----
(***************************************************************************)
(* Model of mac_bridge_mcp/server.py: the tool handlers of the MCP server, *)
(* the configuration lookup they share, and what each handler does to the  *)
(* outside world (subprocesses, the Hue bridge, the Vaillant cloud).       *)
(*                                                                         *)
(* One tool call is in flight at a time.  A handler is split at its await  *)
(* points (the HTTP round trip, the subprocess, the cloud session's        *)
(* enter / iterate / write / exit); everything between two await points    *)
(* is one action.                                                          *)
(*                                                                         *)
(* Python values:                                                          *)
(*   Optional[T]      None is <<>>, a value v is <<v>>                     *)
(*   JSON value       [t |-> "null" | "str" | "obj", ...]                  *)
(*   str built by an f-string: the sequence of its pieces, the leading     *)
(*                    literal split after "Error" when it starts with it   *)
(*   an evaluation that may raise: [ok |-> TRUE, v |-> value] or           *)
(*                    [ok |-> FALSE, exc |-> exception class]              *)
(***************************************************************************)
EXTENDS Integers, Sequences, FiniteSets, TLC

VARIABLES
    config,   \* the file at CONFIG_PATH
    call,     \* the tool call in flight: its arguments, locals and position
    http,     \* requests the current call has sent to the Hue bridge
    cloud     \* Vaillant cloud: sessions open, and what the current call did

vars == <<config, call, http, cloud>>

\* ------------------------------------------------------------------ bounds

MaxSystems == 2   \* systems returned by get_systems()
MaxZones   == 2   \* heating zones in the whole account
MaxDhw     == 1   \* hot-water circuits in the whole account

\* ----------------------------------------------------------- Python values

None == <<>>
Some(x) == <<x>>

Ok(x) == [ok |-> TRUE, v |-> x]
Raise(e) == [ok |-> FALSE, exc |-> e]

JNull == [t |-> "null"]
JStr(s) == [t |-> "str", s |-> s]
JObj(f) == [t |-> "obj", f |-> f]
EmptyDict == JObj(<<>>)

\* bool(x) of a JSON value
Truthy(j) ==
    CASE j.t = "null" -> FALSE
      [] j.t = "str" -> j.s # ""
      [] j.t = "obj" -> DOMAIN j.f # {}

\* bool(x) of an Optional[str]
StrTruthy(o) == o # None /\ o[1] # ""

Max(a, b) == IF a >= b THEN a ELSE b
Min(a, b) == IF a <= b THEN a ELSE b

\* x.get(key, default): only a dict has .get
DictGet(x, key, default) ==
    IF x.t # "obj" THEN Raise("AttributeError")
    ELSE IF key \in DOMAIN x.f THEN Ok(x.f[key]) ELSE Ok(default)

StartsWithError(text) == Len(text) > 0 /\ text[1] = "Error"

\* ------------------------------------------------------------ configuration

\* _load_config without the CONFIG_PATH.exists() test: a missing file raises
LoadConfigUnguarded ==
    IF ~config.exists THEN Raise("FileNotFoundError")
    ELSE IF config.wellformed THEN Ok(config.doc) ELSE Raise("JSONDecodeError")

\* json.loads(CONFIG_PATH.read_text()) if the file exists, else {}
_load_config ==
    IF config.exists
    THEN IF config.wellformed THEN Ok(config.doc) ELSE Raise("JSONDecodeError")
    ELSE Ok(EmptyDict)

_hue_config ==
    LET doc == _load_config IN
    IF ~doc.ok THEN doc
    ELSE LET hue == DictGet(doc.v, "hue", EmptyDict) IN
         IF ~hue.ok THEN hue
         ELSE LET bridge_ip == DictGet(hue.v, "bridge_ip", JNull)
                  app_key == DictGet(hue.v, "app_key", JNull)
              IN  IF ~bridge_ip.ok THEN bridge_ip
                  ELSE IF ~Truthy(bridge_ip.v) \/ ~Truthy(app_key.v) THEN Ok(None)
                  ELSE Ok(Some(<<bridge_ip.v, app_key.v>>))

_vaillant_config ==
    LET doc == _load_config IN
    IF ~doc.ok THEN doc
    ELSE LET v == DictGet(doc.v, "vaillant", EmptyDict) IN
         IF ~v.ok THEN v
         ELSE LET email == DictGet(v.v, "email", JNull)
                  password == DictGet(v.v, "password", JNull)
              IN  IF ~email.ok THEN email
                  ELSE IF ~Truthy(email.v) \/ ~Truthy(password.v) THEN Ok(None)
                  ELSE Ok(Some(<<email.v, password.v,
                                 DictGet(v.v, "brand", JStr("vaillant")).v,
                                 DictGet(v.v, "country", JStr("czechrepublic")).v>>))

\* ------------------------------------------------------------ the call slot

Idle ==
    [tool |-> "none", args |-> <<>>, pc |-> "idle", cfg |-> None, body |-> <<>>,
     proc |-> <<>>, systems |-> <<>>, idx |-> 0, lines |-> <<>>,
     pending |-> <<>>, result |-> <<>>, exc |-> ""]

NoCloud == [open |-> 0, acquired |-> 0, released |-> 0, writes |-> <<>>]

Started(tool, args) == [Idle EXCEPT !.tool = tool, !.args = args]

\* the handler has returned or raised
Ended(c) == c.pc \in {"done", "raised"}

\* the handler returns text
Return(c, text) == [c EXCEPT !.pc = "done", !.result = text]

\* an exception leaves the handler
Raised(c, e) == [c EXCEPT !.pc = "raised", !.exc = e]

\* ------------------------------------------------- configuration documents

\* a JSON object holding the keys of `opt` that are given, opt[k] = <<value>>
ObjOf(opt) == JObj([k \in {k \in DOMAIN opt : opt[k] # None} |-> opt[k][1]])

StrOpts(val) == {None, Some(JStr("")), Some(JStr(val))}

HueRecords ==
    {ObjOf([bridge_ip |-> ip, app_key |-> key]) :
        ip \in StrOpts("192.168.1.20"), key \in StrOpts("hue-app-key")}

VaillantRecords ==
    {ObjOf([email |-> e, password |-> p, brand |-> b, country |-> b]) :
        e \in StrOpts("me@example.org"), p \in StrOpts("secret"),
        b \in {None, Some(JStr("bulex"))}}

NotARecord == {JNull, JStr("off")}

HueReady == ObjOf([bridge_ip |-> Some(JStr("192.168.1.20")),
                   app_key |-> Some(JStr("hue-app-key"))])
VaillantReady == ObjOf([email |-> Some(JStr("me@example.org")),
                        password |-> Some(JStr("secret")),
                        brand |-> None, country |-> None])

\* the documents a config.json may hold: each entry varied with the other absent,
\* both entries usable, and a document that is not an object
Documents ==
    {ObjOf([hue |-> h, vaillant |-> None]) :
        h \in {None} \cup {Some(x) : x \in HueRecords \cup NotARecord}}
    \cup {ObjOf([hue |-> None, vaillant |-> v]) :
        v \in {None} \cup {Some(x) : x \in VaillantRecords \cup NotARecord}}
    \cup {ObjOf([hue |-> Some(HueReady), vaillant |-> Some(VaillantReady)]),
          JStr("not an object")}

ConfigFiles ==
    {[exists |-> FALSE, wellformed |-> FALSE, doc |-> JNull],
     [exists |-> TRUE, wellformed |-> FALSE, doc |-> JNull]}
    \cup {[exists |-> TRUE, wellformed |-> TRUE, doc |-> d] : d \in Documents}

\* ------------------------------------------------------------------- Init

Init ==
    /\ config \in ConfigFiles
    /\ call = Idle
    /\ http = <<>>
    /\ cloud = NoCloud

\* ---------------------------------------------------------- macOS tools

Urls == {"neewerlite://toggleLight"}
AppNames == {"Safari"}
ShortcutNames == {"Morning"}
InputTexts == {None, Some("hello")}

\* subprocess.run(cmd, input=..., capture_output=True, text=True[, timeout=...])
Spawn(c, cmd, input, timeout) ==
    [c EXCEPT !.pc = "running",
              !.proc = [cmd |-> cmd, input |-> input, timeout |-> timeout,
                        expired |-> FALSE]]

run_url_scheme ==
    /\ call.pc = "idle"
    /\ \E url \in Urls :
         call' = Spawn(Started("run_url_scheme", [url |-> url]),
                       <<"open", url>>, None, None)
    /\ UNCHANGED <<config, http, cloud>>

open_application ==
    /\ call.pc = "idle"
    /\ \E app_name \in AppNames :
         call' = Spawn(Started("open_application", [app_name |-> app_name]),
                       <<"open", "-a", app_name>>, None, None)
    /\ UNCHANGED <<config, http, cloud>>

run_shortcut ==
    /\ call.pc = "idle"
    /\ \E name \in ShortcutNames, input_text \in InputTexts :
         call' = Spawn(Started("run_shortcut", [name |-> name, input_text |-> input_text]),
                       <<"shortcuts", "run", name>>, input_text, Some(30))
    /\ UNCHANGED <<config, http, cloud>>

list_shortcuts ==
    /\ call.pc = "idle"
    /\ call' = Spawn(Started("list_shortcuts", <<>>), <<"shortcuts", "list">>, None, None)
    /\ UNCHANGED <<config, http, cloud>>

\* str.strip() of the captured stdout: the samples carry a trailing newline
Strip(out) == IF out = "\n" THEN "" ELSE IF out = "ok\n" THEN "ok" ELSE out

Stdouts == {"", "\n", "ok\n"}

\* the handler's code after subprocess.run returned
AfterRun(c, returncode, stdout, stderr) ==
    CASE c.tool = "run_url_scheme" ->
           IF returncode # 0 THEN Return(c, <<"Error", ": ", stderr>>)
           ELSE Return(c, <<"Opened: ", c.args.url>>)
      [] c.tool = "open_application" ->
           IF returncode # 0
           THEN Return(c, <<"Error", " opening ", c.args.app_name, ": ", stderr>>)
           ELSE Return(c, <<"Opened: ", c.args.app_name>>)
      [] c.tool = "run_shortcut" ->
           IF returncode # 0 THEN Return(c, <<"Error", ": ", stderr>>)
           ELSE IF Strip(stdout) # "" THEN Return(c, <<Strip(stdout)>>)
           ELSE Return(c, <<"Shortcut '", c.args.name, "' executed">>)
      [] c.tool = "list_shortcuts" ->
           IF returncode # 0 THEN Return(c, <<"Error", ": ", stderr>>)
           ELSE Return(c, <<Strip(stdout)>>)

\* the child process exits (within the timeout, when there is one)
SubprocessExits ==
    /\ call.pc = "running"
    /\ \E returncode \in {0, 1}, stdout \in Stdouts :
         call' = AfterRun(call, returncode, stdout, "boom")
    /\ UNCHANGED <<config, http, cloud>>

\* what subprocess.run does to the handler when the timeout expires: the child
\* is killed and TimeoutExpired is raised at the call site
OnTimeout(c) == Raised(c, "TimeoutExpired")

\* the child is still running when the timeout given to subprocess.run expires
SubprocessTimesOut ==
    /\ call.pc = "running"
    /\ call.proc.timeout # None
    /\ call' = OnTimeout([call EXCEPT !.proc.expired = TRUE])
    /\ UNCHANGED <<config, http, cloud>>

\* ------------------------------------------------------ Philips Hue tools

HueNotConfigured ==
    <<"Error", ": Hue not configured. Set bridge_ip and app_key in config.json">>

LightIds == {"light-1"}
SceneIds == {"scene-1"}
OnArgs == {None, Some(TRUE), Some(FALSE)}
BrightnessArgs == {None} \cup {Some(b) : b \in {-1000, -1, 0, 1, 50, 99, 100, 101, 1000}}
ColorTempArgs == {None} \cup {Some(c) : c \in {0, 152, 153, 154, 300, 499, 500, 501, 1000}}

\* the clamp without its lower bound: min(100, brightness)
ClampBrightnessNoFloor(brightness) == Min(100, brightness)

\* max(0, min(100, brightness))
ClampBrightness(brightness) == Max(0, Min(100, brightness))

\* max(153, min(500, color_temp))
ClampMirek(color_temp) == Max(153, Min(500, color_temp))

\* the dict `body` of hue_set_light: a key for each argument that is not None
SetLightBody(on, brightness, color_temp) ==
    LET keys == {k \in {"on"} : on # None}
                \cup {k \in {"dimming"} : brightness # None}
                \cup {k \in {"color_temperature"} : color_temp # None}
    IN  [k \in keys |->
            CASE k = "on" -> [on |-> on[1]]
              [] k = "dimming" -> [brightness |-> ClampBrightness(brightness[1])]
              [] k = "color_temperature" -> [mirek |-> ClampMirek(color_temp[1])]]

\* the handler has opened its httpx.AsyncClient and awaits this request
Request(c, method, resource, json) ==
    [c EXCEPT !.pc = "request",
              !.body = [method |-> method,
                        url |-> <<"https://", c.cfg[1][1].s, "/clip/v2/resource/", resource>>,
                        key |-> c.cfg[1][2].s,
                        json |-> json]]

\* the prologue the four Hue handlers share: the handler ends here, or goes on
\* with cfg set
HueCall(c) ==
    LET cfg == _hue_config IN
    IF ~cfg.ok THEN Raised(c, cfg.exc)
    ELSE IF cfg.v = None THEN Return(c, HueNotConfigured)
    ELSE [c EXCEPT !.cfg = cfg.v]

ListLights(c) == Request(c, "GET", <<"light">>, None)

hue_list_lights ==
    /\ call.pc = "idle"
    /\ LET c == HueCall(Started("hue_list_lights", <<>>)) IN
         call' = IF Ended(c) THEN c ELSE ListLights(c)
    /\ UNCHANGED <<config, http, cloud>>

\* hue_set_light without the `if not body` test: the PUT is sent in any case
SetLightAlwaysPut(c) ==
    Request(c, "PUT", <<"light/", c.args.light_id>>,
            Some(SetLightBody(c.args.on, c.args.brightness, c.args.color_temp)))

SetLight(c) ==
    LET body == SetLightBody(c.args.on, c.args.brightness, c.args.color_temp) IN
    IF DOMAIN body = {}
    THEN Return(c, <<"Error", ": Specify at least one of: on, brightness, color_temp">>)
    ELSE Request(c, "PUT", <<"light/", c.args.light_id>>, Some(body))

hue_set_light ==
    /\ call.pc = "idle"
    /\ \E light_id \in LightIds, on \in OnArgs,
          brightness \in BrightnessArgs, color_temp \in ColorTempArgs :
         LET c == HueCall(Started("hue_set_light",
                                  [light_id |-> light_id, on |-> on,
                                   brightness |-> brightness, color_temp |-> color_temp])) IN
         call' = IF Ended(c) THEN c ELSE SetLight(c)
    /\ UNCHANGED <<config, http, cloud>>

ListScenes(c) == Request(c, "GET", <<"scene">>, None)

hue_list_scenes ==
    /\ call.pc = "idle"
    /\ LET c == HueCall(Started("hue_list_scenes", <<>>)) IN
         call' = IF Ended(c) THEN c ELSE ListScenes(c)
    /\ UNCHANGED <<config, http, cloud>>

ActivateScene(c) ==
    Request(c, "PUT", <<"scene/", c.args.scene_id>>, Some([recall |-> [action |-> "active"]]))

hue_activate_scene ==
    /\ call.pc = "idle"
    /\ \E scene_id \in SceneIds :
         LET c == HueCall(Started("hue_activate_scene", [scene_id |-> scene_id])) IN
         call' = IF Ended(c) THEN c ELSE ActivateScene(c)
    /\ UNCHANGED <<config, http, cloud>>

\* resp.json().get("data", []) of the bridge's answers
LightData ==
    {<<>>,
     <<[name |-> "Desk", id |-> "light-1", on |-> TRUE, brightness |-> 50]>>,
     <<[name |-> "Desk", id |-> "light-1", on |-> TRUE, brightness |-> 50],
       [name |-> "Sofa", id |-> "light-2", on |-> FALSE, brightness |-> 0]>>}
SceneData ==
    {<<>>, <<[name |-> "Relax", id |-> "scene-1"]>>}

LightLine(light) ==
    <<"- ", light.name, " (id: ", light.id, ") - ",
      IF light.on THEN "ON" ELSE "OFF", ", brightness: ", light.brightness, "%">>
SceneLine(scene) == <<"- ", scene.name, " (id: ", scene.id, ")">>

\* "\n".join(lines)
RECURSIVE Join(_)
Join(lines) ==
    IF lines = <<>> THEN <<>>
    ELSE IF Len(lines) = 1 THEN lines[1]
    ELSE lines[1] \o <<"\n">> \o Join(Tail(lines))

\* the handler's code after the awaited request returned `resp`
AfterResponse(c, status, data) ==
    CASE c.tool = "hue_list_lights" ->
           IF status # 200 THEN Return(c, <<"Error", " ", status, ": ", "resp.text">>)
           ELSE LET results == [i \in 1..Len(data) |-> LightLine(data[i])]
                IN  Return(c, IF results # <<>> THEN Join(results) ELSE <<"No lights found">>)
      [] c.tool = "hue_list_scenes" ->
           IF status # 200 THEN Return(c, <<"Error", " ", status, ": ", "resp.text">>)
           ELSE LET results == [i \in 1..Len(data) |-> SceneLine(data[i])]
                IN  Return(c, IF results # <<>> THEN Join(results) ELSE <<"No scenes found">>)
      [] c.tool = "hue_set_light" ->
           IF status = 200
           THEN Return(c, <<"Light ", c.args.light_id, " updated: ", c.body.json[1]>>)
           ELSE Return(c, <<"Error", " ", status, ": ", "resp.text">>)
      [] c.tool = "hue_activate_scene" ->
           IF status = 200
           THEN Return(c, <<"Scene ", c.args.scene_id, " activated">>)
           ELSE Return(c, <<"Error", " ", status, ": ", "resp.text">>)

\* what the bridge may answer to the request of `c`
Answers(c) ==
    CASE c.tool = "hue_list_lights" -> LightData
      [] c.tool = "hue_list_scenes" -> SceneData
      [] OTHER -> {<<>>}

\* the request goes out and the bridge answers
BridgeAnswers ==
    /\ call.pc = "request"
    /\ http' = Append(http, call.body)
    /\ \E status \in {200, 404}, data \in Answers(call) :
         call' = AfterResponse(call, status, data)
    /\ UNCHANGED <<config, cloud>>

\* the request goes out and httpx raises (no route, TLS failure, timeout)
BridgeFails ==
    /\ call.pc = "request"
    /\ http' = Append(http, call.body)
    /\ call' = Raised(call, "httpx.TransportError")
    /\ UNCHANGED <<config, cloud>>

\* --------------------------------------------- datetime.strptime(s, "%Y-%m-%d")

\* a str argument that is parsed is the sequence of its characters
DigitChars == {"0", "1", "2", "3", "4", "5", "6", "7", "8", "9"}

DigitValue(ch) ==
    CASE ch = "0" -> 0 [] ch = "1" -> 1 [] ch = "2" -> 2 [] ch = "3" -> 3
      [] ch = "4" -> 4 [] ch = "5" -> 5 [] ch = "6" -> 6 [] ch = "7" -> 7
      [] ch = "8" -> 8 [] ch = "9" -> 9

\* s.split(sep)
RECURSIVE Split(_, _)
Split(s, sep) ==
    IF s = <<>> THEN << <<>> >>
    ELSE LET rest == Split(Tail(s), sep) IN
         IF Head(s) = sep THEN << <<>> >> \o rest
         ELSE << <<Head(s)>> \o rest[1] >> \o Tail(rest)

AllDigits(s) == \A i \in 1..Len(s) : s[i] \in DigitChars

RECURSIVE ToInt(_)
ToInt(s) ==
    IF s = <<>> THEN 0 ELSE 10 * ToInt(SubSeq(s, 1, Len(s) - 1)) + DigitValue(s[Len(s)])

IsLeap(y) == (y % 4 = 0 /\ y % 100 # 0) \/ y % 400 = 0

DaysInMonth(y, m) ==
    IF m = 2 THEN (IF IsLeap(y) THEN 29 ELSE 28)
    ELSE IF m \in {4, 6, 9, 11} THEN 30 ELSE 31

\* %Y is four digits, %m one or two digits in 1..12, %d one or two digits in
\* 1..31, nothing else may remain, and the date must exist; else ValueError
Strptime(s) ==
    LET parts == Split(s, "-") IN
    IF Len(parts) # 3 THEN Raise("ValueError")
    ELSE LET Y == parts[1]
             m == parts[2]
             d == parts[3]
         IN  IF ~(Len(Y) = 4 /\ AllDigits(Y)) THEN Raise("ValueError")
             ELSE IF ~(Len(m) \in {1, 2} /\ AllDigits(m) /\ ToInt(m) \in 1..12)
                  THEN Raise("ValueError")
             ELSE IF ~(Len(d) \in {1, 2} /\ AllDigits(d) /\ ToInt(d) \in 1..31)
                  THEN Raise("ValueError")
             ELSE IF ToInt(Y) < 1 \/ ToInt(d) > DaysInMonth(ToInt(Y), ToInt(m))
                  THEN Raise("ValueError")
             ELSE Ok([year |-> ToInt(Y), month |-> ToInt(m), day |-> ToInt(d),
                      tzinfo |-> "utc"])

DateArgs ==
    {<<"2", "0", "2", "5", "-", "0", "7", "-", "0", "1">>,   \* "2025-07-01"
     <<"2", "0", "2", "5", "-", "7", "-", "9">>,   \* "2025-7-9"
     <<"2", "0", "2", "5", "-", "0", "2", "-", "3", "0">>,   \* "2025-02-30"
     <<"2", "0", "2", "5", "-", "1", "3", "-", "0", "1">>,   \* "2025-13-01"
     <<"0", "1", "/", "0", "7", "/", "2", "0", "2", "5">>,   \* "01/07/2025"
     <<>>}

\* -------------------------------------------------- the Vaillant account

SpecialFunctions == {None, Some("NONE"), Some("HOLIDAY"), Some("QUICK_VETO")}

\* zone j of system i, with current_special_function sf
Zone(i, j, sf) ==
    [name |-> <<"zone", i, j>>, current_special_function |-> sf,
     operation_mode_heating |-> "TIME_CONTROLLED",
     current_room_temperature |-> 20, desired_room_temperature_setpoint |-> 21]

\* hot-water circuit j of system i
Dhw(i, j) ==
    [name |-> <<"dhw", i, j>>, current_dhw_temperature |-> Some(45),
     tapping_setpoint |-> 50, operation_mode_dhw |-> "TIME_CONTROLLED",
     is_cylinder_boosting |-> FALSE]

\* the systems at position i that have kz zones and kd hot-water circuits
SystemsAt(i, kz, kd) ==
    {[home_name |-> <<"home", i>>, water_pressure |-> 2, outdoor_temperature |-> 8,
      zones |-> [j \in 1..kz |-> Zone(i, j, sfs[j])],
      domestic_hot_water |-> [j \in 1..kd |-> Dhw(i, j)]] :
        sfs \in [1..kz -> SpecialFunctions]}

\* what get_systems() may yield from position i on: at most ns systems with at
\* most nz zones and nd hot-water circuits between them
RECURSIVE AccountsFrom(_, _, _, _)
AccountsFrom(i, ns, nz, nd) ==
    {<<>>} \cup
    (IF ns = 0 THEN {}
     ELSE UNION {UNION {{<<sys>> \o rest :
                            sys \in SystemsAt(i, kz, kd),
                            rest \in AccountsFrom(i + 1, ns - 1, nz - kz, nd - kd)} :
                        kd \in 0..nd} :
                 kz \in 0..nz})

Accounts == AccountsFrom(1, MaxSystems, MaxZones, MaxDhw)

\* ---------------------------------------------------- Vaillant heating tools

Temperatures == {22}
Durations == {3}              \* duration_hours, 3.0 when not given
HotWaterTemperatures == {55}

\* MyPyllantAPI(email, password, brand, country) is built; `async with` enters next
Connect(c) == [c EXCEPT !.pc = "enter"]

VaillantNotConfigured(tool) ==
    IF tool = "vaillant_status"
    THEN <<"Error", ": Vaillant not configured. Set email and password in config.json">>
    ELSE <<"Error", ": Vaillant not configured">>

\* the prologue the Vaillant handlers share: the handler ends here, or goes on
\* with cfg set
VaillantCall(c) ==
    LET cfg == _vaillant_config IN
    IF ~cfg.ok THEN Raised(c, cfg.exc)
    ELSE IF cfg.v = None THEN Return(c, VaillantNotConfigured(c.tool))
    ELSE [c EXCEPT !.cfg = cfg.v]

vaillant_status ==
    /\ call.pc = "idle"
    /\ LET c == VaillantCall(Started("vaillant_status", <<>>)) IN
         call' = IF Ended(c) THEN c ELSE Connect(c)
    /\ UNCHANGED <<config, http, cloud>>

vaillant_set_temperature ==
    /\ call.pc = "idle"
    /\ \E temperature \in Temperatures, duration_hours \in Durations :
         LET c == VaillantCall(Started("vaillant_set_temperature",
                                       [temperature |-> temperature,
                                        duration_hours |-> duration_hours])) IN
         call' = IF Ended(c) THEN c ELSE Connect(c)
    /\ UNCHANGED <<config, http, cloud>>

vaillant_cancel_temperature_override ==
    /\ call.pc = "idle"
    /\ LET c == VaillantCall(Started("vaillant_cancel_temperature_override", <<>>)) IN
         call' = IF Ended(c) THEN c ELSE Connect(c)
    /\ UNCHANGED <<config, http, cloud>>

\* start and end are parsed before the session is entered
ParseHoliday(c) ==
    LET start == Strptime(c.args.start_date) IN
    IF ~start.ok THEN Raised(c, start.exc)
    ELSE LET end == Strptime(c.args.end_date) IN
         IF ~end.ok THEN Raised(c, end.exc)
         ELSE Connect([c EXCEPT !.body = [start |-> start.v, end |-> end.v]])

vaillant_set_holiday ==
    /\ call.pc = "idle"
    /\ \E start_date \in DateArgs, end_date \in DateArgs :
         LET c == VaillantCall(Started("vaillant_set_holiday",
                                       [start_date |-> start_date, end_date |-> end_date])) IN
         call' = IF Ended(c) THEN c ELSE ParseHoliday(c)
    /\ UNCHANGED <<config, http, cloud>>

vaillant_cancel_holiday ==
    /\ call.pc = "idle"
    /\ LET c == VaillantCall(Started("vaillant_cancel_holiday", <<>>)) IN
         call' = IF Ended(c) THEN c ELSE Connect(c)
    /\ UNCHANGED <<config, http, cloud>>

vaillant_boost_hot_water ==
    /\ call.pc = "idle"
    /\ LET c == VaillantCall(Started("vaillant_boost_hot_water", <<>>)) IN
         call' = IF Ended(c) THEN c ELSE Connect(c)
    /\ UNCHANGED <<config, http, cloud>>

vaillant_set_hot_water_temperature ==
    /\ call.pc = "idle"
    /\ \E temperature \in HotWaterTemperatures :
         LET c == VaillantCall(Started("vaillant_set_hot_water_temperature",
                                       [temperature |-> temperature])) IN
         call' = IF Ended(c) THEN c ELSE Connect(c)
    /\ UNCHANGED <<config, http, cloud>>

\* `async with MyPyllantAPI(...) as api`: __aenter__ returns, the session is open
SessionOpens ==
    /\ call.pc = "enter"
    /\ cloud' = [cloud EXCEPT !.open = @ + 1, !.acquired = @ + 1]
    /\ call' = [call EXCEPT !.pc = "iter"]
    /\ UNCHANGED <<config, http>>

\* __aenter__ raises (the login is refused): the block is never entered
SessionRefused ==
    /\ call.pc = "enter"
    /\ call' = Raised(call, "LoginFailed")
    /\ UNCHANGED <<config, http, cloud>>

\* control leaves the `async with` block with a value to return ...
Leave(c, text) == [c EXCEPT !.pc = "exit", !.pending = [raise |-> FALSE, v |-> text]]

\* an exception leaving the handler with no __aexit__ run (a session opened
\* and closed by hand, with no try/finally)
LeaveRaisingUnreleased(c, e) == Raised(c, e)

\* ... or with an exception in flight
LeaveRaising(c, e) == [c EXCEPT !.pc = "exit", !.pending = [raise |-> TRUE, v |-> e]]

\* the awaited write is next
Write(c, op, target, args) ==
    [c EXCEPT !.pc = "write", !.body = [op |-> op, target |-> target, args |-> args]]

\* is z.current_special_function set and not "NONE" (the test of the holiday loop)
InSpecialFunction(z) ==
    StrTruthy(z.current_special_function) /\ z.current_special_function[1] # "NONE"

\* the holiday loop without its break: the last zone in a special function wins
HolidayLineNoBreak(zones) ==
    LET hits == {j \in 1..Len(zones) : InSpecialFunction(zones[j])} IN
    IF hits = {} THEN <<"Holiday mode: off">>
    ELSE LET last == CHOOSE j \in hits : \A k \in hits : j >= k
         IN  <<"Special function: ", zones[last].current_special_function[1]>>

\* the first `for z in system.zones` of vaillant_status, with its break and else
HolidayLine(zones) ==
    LET hits == {j \in 1..Len(zones) : InSpecialFunction(zones[j])} IN
    IF hits = {} THEN <<"Holiday mode: off">>
    ELSE LET first == CHOOSE j \in hits : \A k \in hits : j <= k
         IN  <<"Special function: ", zones[first].current_special_function[1]>>

\* z.current_special_function or z.heating.operation_mode_heating
ZoneMode(z) ==
    IF StrTruthy(z.current_special_function) THEN z.current_special_function[1]
    ELSE z.operation_mode_heating

\* the degree sign of the source's literals is written "deg"
ZoneLine(z) ==
    <<"Zone '", z.name, "': ", z.current_room_temperature, "degC (target: ",
      z.desired_room_temperature_setpoint, "degC, mode: ", ZoneMode(z), ")">>

DhwLine(dhw) ==
    <<"Hot water: ",
      IF dhw.current_dhw_temperature # None /\ dhw.current_dhw_temperature[1] # 0
      THEN <<dhw.current_dhw_temperature[1], "degC">> ELSE "N/A",
      " (target: ", dhw.tapping_setpoint, "degC, mode: ", dhw.operation_mode_dhw,
      ", boosting: ", dhw.is_cylinder_boosting, ")">>

\* the lines vaillant_status appends for one system
SystemLines(system) ==
    << <<"System: ", system.home_name>>,
       <<"Water pressure: ", system.water_pressure, " bar">>,
       <<"Outdoor temp: ", system.outdoor_temperature, "degC">>,
       HolidayLine(system.zones) >>
    \o [j \in 1..Len(system.zones) |-> ZoneLine(system.zones[j])]
    \o [j \in 1..Len(system.domestic_hot_water) |-> DhwLine(system.domestic_hot_water[j])]

\* the last element instead of the first: list[-1]
PrimaryLast(list) == list[Len(list)]

\* which element of a non-empty list the handlers act on: zones[0], domestic_hot_water[0]
Primary(list) == list[1]

\* the body of `async for system in api.get_systems()`, up to its next await
LoopBody(c, system) ==
    CASE c.tool = "vaillant_status" ->
           [c EXCEPT !.lines = @ \o SystemLines(system)]
      [] c.tool = "vaillant_set_temperature" ->
           IF system.zones = <<>> THEN Leave(c, <<"Error", ": No heating zones found">>)
           ELSE Write(c, "quick_veto_zone_temperature", Primary(system.zones),
                      <<c.args.temperature, c.args.duration_hours>>)
      [] c.tool = "vaillant_cancel_temperature_override" ->
           IF system.zones = <<>> THEN Leave(c, <<"Error", ": No heating zones found">>)
           ELSE Write(c, "cancel_quick_veto_zone_temperature", Primary(system.zones), <<>>)
      [] c.tool = "vaillant_set_holiday" ->
           Write(c, "set_holiday", system, <<c.body.start, c.body.end>>)
      [] c.tool = "vaillant_cancel_holiday" ->
           Write(c, "cancel_holiday", system, <<>>)
      [] c.tool = "vaillant_boost_hot_water" ->
           IF system.domestic_hot_water = <<>>
           THEN Leave(c, <<"Error", ": No hot water tank found">>)
           ELSE Write(c, "boost_domestic_hot_water", Primary(system.domestic_hot_water), <<>>)
      [] c.tool = "vaillant_set_hot_water_temperature" ->
           IF system.domestic_hot_water = <<>>
           THEN Leave(c, <<"Error", ": No hot water tank found">>)
           ELSE Write(c, "set_domestic_hot_water_temperature",
                      Primary(system.domestic_hot_water), <<c.args.temperature>>)

\* the loop is exhausted: the block ends and the statement after it returns
LoopEnds(c) ==
    IF c.tool = "vaillant_status"
    THEN Leave(c, IF c.lines # <<>> THEN Join(c.lines) ELSE <<"No systems found">>)
    ELSE Leave(c, <<"Error", ": No systems found">>)

\* get_systems() yields its next system, or is exhausted; the account is read
\* when the iteration starts
GetSystemsYields ==
    /\ call.pc = "iter"
    /\ \E systems \in (IF call.idx = 0 THEN Accounts ELSE {call.systems}) :
         LET c == [call EXCEPT !.systems = systems, !.idx = @ + 1] IN
         call' = IF c.idx > Len(systems) THEN LoopEnds(c)
                 ELSE LoopBody(c, systems[c.idx])
    /\ UNCHANGED <<config, http, cloud>>

\* get_systems() raises (the cloud answers with an error)
GetSystemsRaises ==
    /\ call.pc = "iter"
    /\ call' = LeaveRaising(call, "ClientResponseError")
    /\ UNCHANGED <<config, http, cloud>>

\* the text returned after the awaited write
Written(c) ==
    CASE c.tool = "vaillant_set_temperature" ->
           <<"Temperature set to ", c.args.temperature, "degC for ",
             c.args.duration_hours, "h on zone '", c.body.target.name, "'">>
      [] c.tool = "vaillant_cancel_temperature_override" ->
           <<"Temperature override cancelled on zone '", c.body.target.name, "'">>
      [] c.tool = "vaillant_set_holiday" ->
           <<"Holiday mode set: ", c.args.start_date, " to ", c.args.end_date>>
      [] c.tool = "vaillant_cancel_holiday" -> <<"Holiday mode cancelled">>
      [] c.tool = "vaillant_boost_hot_water" -> <<"Hot water boost started">>
      [] c.tool = "vaillant_set_hot_water_temperature" ->
           <<"Hot water temperature set to ", c.args.temperature, "degC">>

\* the awaited api call is sent and succeeds: the handler returns from the loop
RemoteWriteReturns ==
    /\ call.pc = "write"
    /\ cloud' = [cloud EXCEPT !.writes = Append(@, call.body)]
    /\ call' = Leave(call, Written(call))
    /\ UNCHANGED <<config, http>>

\* the awaited api call is sent and raises
RemoteWriteRaises ==
    /\ call.pc = "write"
    /\ cloud' = [cloud EXCEPT !.writes = Append(@, call.body)]
    /\ call' = LeaveRaising(call, "ClientResponseError")
    /\ UNCHANGED <<config, http>>

\* how the block is left: __aexit__ runs, then the return value or the exception
\* leaves the handler
AfterExit(c) == IF c.pending.raise THEN Raised(c, c.pending.v) ELSE Return(c, c.pending.v)

\* `async with` is left: the session is closed
SessionCloses ==
    /\ call.pc = "exit"
    /\ cloud' = [cloud EXCEPT !.open = @ - 1, !.released = @ + 1]
    /\ call' = AfterExit(call)
    /\ UNCHANGED <<config, http>>

\* ---------------------------------------------------------- the dispatcher

\* the result (or the exception) goes back to the transport; the next call may start
Finish ==
    /\ call.pc \in {"done", "raised"}
    /\ call' = Idle
    /\ http' = <<>>
    /\ cloud' = [NoCloud EXCEPT !.open = cloud.open]
    /\ UNCHANGED config

Next ==
    \/ run_url_scheme \/ open_application \/ run_shortcut \/ list_shortcuts
    \/ SubprocessExits \/ SubprocessTimesOut
    \/ hue_list_lights \/ hue_set_light \/ hue_list_scenes \/ hue_activate_scene
    \/ BridgeAnswers \/ BridgeFails
    \/ vaillant_status \/ vaillant_set_temperature \/ vaillant_cancel_temperature_override
    \/ vaillant_set_holiday \/ vaillant_cancel_holiday
    \/ vaillant_boost_hot_water \/ vaillant_set_hot_water_temperature
    \/ SessionOpens \/ SessionRefused \/ GetSystemsYields \/ GetSystemsRaises
    \/ RemoteWriteReturns \/ RemoteWriteRaises \/ SessionCloses
    \/ Finish

Spec == Init /\ [][Next]_vars

\* ------------------------------------------------------------- properties

HueTools == {"hue_list_lights", "hue_set_light", "hue_list_scenes", "hue_activate_scene"}

VaillantTools ==
    {"vaillant_status", "vaillant_set_temperature", "vaillant_cancel_temperature_override",
     "vaillant_set_holiday", "vaillant_cancel_holiday", "vaillant_boost_hot_water",
     "vaillant_set_hot_water_temperature"}

\* the call returned the "not configured" text of its integration
SaysNotConfigured ==
    /\ call.pc = "done"
    /\ StartsWithError(call.result)
    /\ call.result = IF call.tool \in HueTools THEN HueNotConfigured
                     ELSE VaillantNotConfigured(call.tool)

\* the call touched neither the bridge nor the cloud
NoNetwork == http = <<>> /\ cloud.acquired = 0 /\ cloud.open = 0 /\ cloud.writes = <<>>

ConfigIsEmpty == ~config.exists \/ (config.wellformed /\ config.doc = EmptyDict)

\* C1: with config.json absent or holding {}, every Hue and every Vaillant tool,
\* whatever its arguments, returns its "not configured" text, which starts with
\* "Error", sends nothing to the bridge and opens no cloud session.
C1_EmptyConfigNotConfigured ==
    (ConfigIsEmpty /\ call.tool \in HueTools \cup VaillantTools)
        => (SaysNotConfigured /\ NoNetwork)

\* C1 happens: config.json holds {} and vaillant_set_holiday was called
C1_Witness ==
    /\ config.exists /\ config.wellformed /\ config.doc = EmptyDict
    /\ call.tool = "vaillant_set_holiday"
    /\ call.pc = "done"

HueConfigured == _hue_config.ok /\ _hue_config.v # None
VaillantConfigured == _vaillant_config.ok /\ _vaillant_config.v # None

\* the body keys of the arguments of hue_set_light that were provided
ProvidedKeys(args) ==
    {k \in {"on"} : args.on # None}
    \cup {k \in {"dimming"} : args.brightness # None}
    \cup {k \in {"color_temperature"} : args.color_temp # None}

\* C2: with Hue configured, hue_set_light with on, brightness and color_temp all
\* absent returns a text starting with "Error" and sends nothing; a request is
\* sent only when a field was provided, it is one PUT, and its body has exactly
\* the keys of the provided fields.
C2_SetLightPartialBody ==
    (HueConfigured /\ call.tool = "hue_set_light")
        => /\ ProvidedKeys(call.args) = {}
                => (call.pc = "done" /\ StartsWithError(call.result) /\ http = <<>>)
           /\ http # <<>>
                => /\ Len(http) = 1
                   /\ http[1].method = "PUT"
                   /\ ProvidedKeys(call.args) # {}
                   /\ DOMAIN http[1].json[1] = ProvidedKeys(call.args)
           /\ call.pc = "request"
                => (ProvidedKeys(call.args) # {}
                    /\ DOMAIN call.body.json[1] = ProvidedKeys(call.args))

\* C2 happens: Hue is configured and hue_set_light was called with no field
C2_Witness ==
    /\ HueConfigured
    /\ call.tool = "hue_set_light"
    /\ call.args.on = None /\ call.args.brightness = None /\ call.args.color_temp = None
    /\ call.pc = "done"

\* C3: when the shortcut does not finish within the 30 seconds given to
\* subprocess.run, run_shortcut returns a text starting with "Error"; the
\* timeout does not leave the handler as an exception.
C3_TimeoutIsReturnedAsError ==
    (call.tool = "run_shortcut" /\ call.proc.expired)
        => (call.pc = "done" /\ StartsWithError(call.result))

\* the entry of the call's integration in config.json is there and is no record
EntryNotARecord ==
    /\ config.exists /\ config.wellformed /\ config.doc.t = "obj"
    /\ LET key == IF call.tool \in HueTools THEN "hue" ELSE "vaillant" IN
       key \in DOMAIN config.doc.f /\ config.doc.f[key].t # "obj"

\* the entry of the call's integration holds every required field, non-empty
RequiredFieldsGiven ==
    /\ config.exists /\ config.wellformed /\ config.doc.t = "obj"
    /\ LET key == IF call.tool \in HueTools THEN "hue" ELSE "vaillant"
           required == IF call.tool \in HueTools THEN {"bridge_ip", "app_key"}
                       ELSE {"email", "password"}
       IN  /\ key \in DOMAIN config.doc.f
           /\ config.doc.f[key].t = "obj"
           /\ \A r \in required :
                 r \in DOMAIN config.doc.f[key].f /\ Truthy(config.doc.f[key].f[r])

\* C4: loading the configuration never fails the caller: with config.json
\* missing, not well-formed JSON, or holding a 'hue' / 'vaillant' entry that is
\* no record, a Hue or Vaillant tool returns its "not configured" text and does
\* not raise; and credentials resolve (the call gets past the "not configured"
\* return) only when every required field is present and non-empty.
C4_ConfigNeverFailsCaller ==
    (call.tool \in HueTools \cup VaillantTools)
        => /\ (~config.exists \/ ~config.wellformed \/ EntryNotARecord)
                => SaysNotConfigured
           /\ call.cfg # None => RequiredFieldsGiven

\* the argument of vaillant_set_holiday that does not parse, start_date first
MalformedField ==
    IF ~Strptime(call.args.start_date).ok THEN "start_date" ELSE "end_date"

\* C5: with Vaillant configured, vaillant_set_holiday with a start_date or an
\* end_date that is no valid YYYY-MM-DD date opens no cloud session, makes no
\* remote call, and returns a text that starts with "Error" and names the
\* malformed field; it does not raise.
C5_MalformedDateIsReturnedAsError ==
    (/\ VaillantConfigured
     /\ call.tool = "vaillant_set_holiday"
     /\ ~Strptime(call.args.start_date).ok \/ ~Strptime(call.args.end_date).ok)
        => /\ cloud.acquired = 0 /\ cloud.writes = <<>>
           /\ call.pc = "done"
           /\ StartsWithError(call.result)
           /\ \E i \in 1..Len(call.result) : call.result[i] = MalformedField

\* C6: a Vaillant call acquires the cloud session at most once and has released
\* it when the call ends, however it ends (a return after the loop, a return
\* from inside the loop, no systems, an exception of the remote call); no
\* session is open when a call ends or between calls, so none is shared.
C6_SessionScopedToCall ==
    /\ cloud.acquired <= 1
    /\ cloud.open = cloud.acquired - cloud.released
    /\ cloud.open \in {0, 1}
    /\ call.pc \in {"idle", "enter", "done", "raised"} => cloud.open = 0
    /\ call.pc \in {"iter", "write", "exit"} => cloud.open = 1
    /\ cloud.writes # <<>> => cloud.acquired = 1

\* C6 happens: the remote write raised, and the call ended with its session released
C6_Witness ==
    /\ call.tool \in VaillantTools
    /\ call.pc = "raised"
    /\ call.exc = "ClientResponseError"
    /\ cloud.writes # <<>>
    /\ cloud.acquired = 1 /\ cloud.released = 1 /\ cloud.open = 0

ZoneTools == {"vaillant_set_temperature", "vaillant_cancel_temperature_override"}
HotWaterTools == {"vaillant_boost_hot_water", "vaillant_set_hot_water_temperature"}

\* the call is ending, or has ended, with a returned text that starts with "Error"
EndsInError ==
    \/ call.pc = "exit" /\ ~call.pending.raise /\ StartsWithError(call.pending.v)
    \/ call.pc = "done" /\ StartsWithError(call.result)

\* the list of system 0 that the tool of the call acts on
Targets(system) ==
    IF call.tool \in ZoneTools THEN system.zones ELSE system.domestic_hot_water

IsZoneLine(line) == line[1] = "Zone '"
IsHolidayLine(line) == line[1] \in {"Holiday mode: off", "Special function: "}

\* the zones of all systems, in the order vaillant_status renders them
RECURSIVE AllZones(_)
AllZones(systems) ==
    IF systems = <<>> THEN <<>> ELSE Head(systems).zones \o AllZones(Tail(systems))

\* a special function is set and is not "NONE"
Active(z) ==
    /\ z.current_special_function # None
    /\ z.current_special_function[1] \notin {"", "NONE"}

\* C8: vaillant_status renders each zone with its special function when one is
\* set and is not "NONE", and with its base heating mode otherwise; a zone whose
\* special function is "NONE" is rendered with its base heating mode.
C8_ZoneModeResolved ==
    (call.tool = "vaillant_status" /\ call.pc = "done")
        => LET rendered == SelectSeq(call.lines, IsZoneLine)
               zones == AllZones(call.systems)
           IN  /\ Len(rendered) = Len(zones)
               /\ \A k \in 1..Len(zones) :
                     rendered[k][8] = IF Active(zones[k])
                                      THEN zones[k].current_special_function[1]
                                      ELSE zones[k].operation_mode_heating

\* C9: in vaillant_status each system contributes exactly one holiday line: it is
\* "Holiday mode: off" if and only if no zone of the system has a special
\* function that is set and is not "NONE" (also with no zones); otherwise it is
\* "Special function: X", X being the special function of the first such zone.
C9_OneHolidayLinePerSystem ==
    (call.tool = "vaillant_status" /\ call.pc = "done")
        => LET holiday == SelectSeq(call.lines, IsHolidayLine) IN
           /\ Len(holiday) = Len(call.systems)
           /\ \A k \in 1..Len(call.systems) :
                 LET zones == call.systems[k].zones
                     active == {j \in 1..Len(zones) : Active(zones[j])}
                 IN  /\ holiday[k] = <<"Holiday mode: off">> <=> active = {}
                     /\ active # {}
                          => \E j \in active :
                                /\ \A i \in active : j <= i
                                /\ holiday[k] = <<"Special function: ",
                                                  zones[j].current_special_function[1]>>

\* C9 happens: a system has two zones in different special functions
C9_Witness ==
    /\ call.tool = "vaillant_status"
    /\ call.pc = "done"
    /\ \E k \in 1..Len(call.systems) :
          LET zones == call.systems[k].zones IN
          /\ Len(zones) = 2
          /\ Active(zones[1]) /\ Active(zones[2])
          /\ zones[1].current_special_function # zones[2].current_special_function

\* the nearest value to x in lo..hi
Nearest(x, lo, hi) == IF x < lo THEN lo ELSE IF x > hi THEN hi ELSE x

\* the JSON body of the PUT of the call: the one sent, or the one about to be
PutBody == IF http # <<>> THEN http[1].json[1] ELSE call.body.json[1]

\* C10: the brightness that hue_set_light writes into the PUT body lies in
\* 0..100 and the mirek in 153..500; a value in range is sent as given and a
\* value out of range is replaced by the nearest bound.
C10_ClampedNotRejected ==
    (call.tool = "hue_set_light" /\ (call.pc = "request" \/ http # <<>>))
        => /\ call.args.brightness # None
                => /\ "dimming" \in DOMAIN PutBody
                   /\ PutBody["dimming"].brightness \in 0..100
                   /\ PutBody["dimming"].brightness = Nearest(call.args.brightness[1], 0, 100)
           /\ call.args.color_temp # None
                => /\ "color_temperature" \in DOMAIN PutBody
                   /\ PutBody["color_temperature"].mirek \in 153..500
                   /\ PutBody["color_temperature"].mirek
                        = Nearest(call.args.color_temp[1], 153, 500)

\* C10 happens: a PUT went out for a brightness below 0 and a mirek above 500
C10_Witness ==
    /\ call.tool = "hue_set_light"
    /\ http # <<>>
    /\ call.args.brightness # None /\ call.args.brightness[1] < 0
    /\ call.args.color_temp # None /\ call.args.color_temp[1] > 500

====
